---- MODULE Spec2Model ----
(***************************************************************************)
(* Media identity resolution and stream mapping of the Torbox Stremio      *)
(* addon (src/unnamed/part_001): the inventory cache, the Cinemeta search  *)
(* cache, the catalog handler and the stream handler, as a state machine   *)
(* whose steps are the stretches of code between two network waits.        *)
(*                                                                         *)
(* JavaScript values are encoded so that "falsy" is one value per type:    *)
(*   number, absent      0 (a year), -1 (season, episode, file id param)   *)
(*   string, absent      <<>>  (a string is a sequence of characters)      *)
(*   object or null      <<>> for null, <<obj>> for an object              *)
(*   object reference    0 for null, else an index into heap               *)
(***************************************************************************)
EXTENDS Integers, Sequences, FiniteSets, TLC

\* ------------------------------------------------------------------ bounds

\* Number of requests (catalog, stream or search) that may be in flight together.
MaxProcs == 2

\* Largest inventory a catalog pass of SpecCap is given.
MaxInventory == 26

\* ------------------------------------------------------- program constants

\* part_001:383  if (metas.length >= 20) break;
CatalogLimit == 20

\* part_001:248  dateValue > 1e12, counted in units of 1e9 (1e12 = 1000 units)
MsThreshold == 1000

\* part_001:253  new Date(dateValue * 1000)
SecToMs == 1000

\* ----------------------------------------------------------------- strings

Digits == <<"0", "1", "2", "3", "4", "5", "6", "7", "8", "9">>

IsDigit(c) == \E i \in 1..10 : Digits[i] = c

DigitVal(c) == (CHOOSE i \in 1..10 : Digits[i] = c) - 1

\* String(n) for an integer n >= 0 (part_001:76, and the template at :427)
RECURSIVE ToStr(_)
ToStr(n) == IF n < 10 THEN <<Digits[n + 1]>>
            ELSE ToStr(n \div 10) \o <<Digits[(n % 10) + 1]>>

\* s.startsWith(pre)
StartsWith(s, pre) == /\ Len(s) >= Len(pre)
                      /\ SubSeq(s, 1, Len(pre)) = pre

\* s.endsWith(suf)
EndsWith(s, suf) == /\ Len(s) >= Len(suf)
                    /\ SubSeq(s, Len(s) - Len(suf) + 1, Len(s)) = suf

\* s.replace(pat, ''): the first occurrence of pat is removed, the rest kept
RECURSIVE RemoveFirst(_, _)
RemoveFirst(s, pat) ==
    IF Len(s) < Len(pat) THEN s
    ELSE IF StartsWith(s, pat) THEN SubSeq(s, Len(pat) + 1, Len(s))
    ELSE <<Head(s)>> \o RemoveFirst(Tail(s), pat)

\* parseInt(s): the leading run of digits as a number, <<n>>; <<>> is NaN
RECURSIVE LeadingDigits(_, _)
LeadingDigits(s, acc) ==
    IF s # <<>> /\ IsDigit(Head(s))
    THEN LeadingDigits(Tail(s), acc * 10 + DigitVal(Head(s)))
    ELSE acc

ParseInt(s) == IF s # <<>> /\ IsDigit(Head(s)) THEN <<LeadingDigits(s, 0)>>
               ELSE IF Len(s) >= 2 /\ Head(s) = "-" /\ IsDigit(s[2])
                    THEN <<0 - LeadingDigits(Tail(s), 0)>>
               ELSE <<>>

TbPrefix == <<"t", "b", ":">>

TtPrefix == <<"t", "t">>

\* ------------------------------------------------------------ name parsing

\* What ptt.parse (the parse-torrent-title package, part_001:87) extracts from
\* the release names used here.  A field the package leaves undefined is ""
\* (title, resolution), 0 (year) or -1 (season, episode); season 0 is a
\* detected season.
PttParse(name) ==
    CASE name = "A.2021.2160p" ->
           [title |-> "A", year |-> 2021, season |-> -1, episode |-> -1, resolution |-> "2160p"]
      [] name = "A.2021.1080p" ->
           [title |-> "A", year |-> 2021, season |-> -1, episode |-> -1, resolution |-> "1080p"]
      [] name = "B.S01E02" ->
           [title |-> "B", year |-> 0, season |-> 1, episode |-> 2, resolution |-> ""]
      [] name = "C.2020" ->
           [title |-> "C", year |-> 2020, season |-> -1, episode |-> -1, resolution |-> ""]
      [] name = "D.S00" ->
           [title |-> "D", year |-> 0, season |-> 0, episode |-> -1, resolution |-> ""]
      [] OTHER ->
           [title |-> name, year |-> 0, season |-> -1, episode |-> -1, resolution |-> ""]

\* JavaScript truthiness of an optional number
Truthy(n) == n # -1 /\ n # 0

\* part_001:89-99: the descriptor built from what ptt.parse returned
Descriptor(parsed, name) ==
    LET type == IF Truthy(parsed.season) \/ Truthy(parsed.episode)
                THEN "series" ELSE "movie"
    IN [title   |-> IF parsed.title # "" THEN parsed.title ELSE name,
        year    |-> parsed.year,
        season  |-> IF Truthy(parsed.season) THEN parsed.season ELSE -1,
        episode |-> IF Truthy(parsed.episode) THEN parsed.episode ELSE -1,
        quality |-> parsed.resolution,
        type    |-> type]

\* part_001:86-100
ParseTorrentName(name) == Descriptor(PttParse(name), name)

\* A name the listing delivers as a JSON number instead of a string
NotAString == "<number>"

\* The name of an entry the listing gives no name (null, or no such field)
NoName == "<undefined>"

\* part_001:87: ptt.parse matches its patterns with title.match(...), a
\* TypeError when the name is no string
PttThrows(name) == name \in {NotAString, NoName}

\* part_001:385  torrent.name || 'Sans nom'
NameOrDefault(name) == IF name # "" /\ name # NoName THEN name ELSE "Sans nom"

\* part_001:329  name.toUpperCase(), a TypeError when the name is no string
QualityThrows(name) == name \in {NotAString, NoName}

\* part_001:389  if (parsed.type !== catalogType) continue;
KindMismatchMut(parsed, catalogType) == FALSE

KindMismatch(parsed, catalogType) == parsed.type # catalogType

\* ------------------------------------------------------------------- dates

\* A timestamp of an inventory entry: [t |-> "none"] absent,
\* [t |-> "num", v |-> n] a number, [t |-> "iso", v |-> ms] a parsable ISO
\* string, [t |-> "bad"] a string Date cannot parse.  A Date object is [time, valid]; valid is FALSE
\* for the invalid Date, whose getTime() is NaN.  Numbers are counted in
\* units of 1e9, so that 1e12 is 1000.
NoDate == [t |-> "none", v |-> 0]

NumDate(n) == [t |-> "num", v |-> n]

IsoDate(ms) == [t |-> "iso", v |-> ms]

BadDate == [t |-> "bad", v |-> 0]

\* part_001:244-260: <<>> is null, <<d>> a Date object
ParseDate(dateValue) ==
    IF dateValue.t = "none" \/ (dateValue.t = "num" /\ dateValue.v = 0) THEN <<>>
    ELSE IF dateValue.t = "num" /\ dateValue.v > MsThreshold
         THEN <<[time |-> dateValue.v, valid |-> TRUE]>>
    ELSE IF dateValue.t = "num"
         THEN <<[time |-> dateValue.v * SecToMs, valid |-> TRUE]>>
    ELSE IF dateValue.t = "iso"
         THEN <<[time |-> dateValue.v, valid |-> TRUE]>>
    ELSE <<[time |-> 0, valid |-> FALSE]>>

\* part_001:371  parseDate(a.updated_at) || parseDate(a.created_at) || new Date(0)
SortDate(a) ==
    IF ParseDate(a.updated_at) # <<>> THEN ParseDate(a.updated_at)[1]
    ELSE IF ParseDate(a.created_at) # <<>> THEN ParseDate(a.created_at)[1]
    ELSE [time |-> 0, valid |-> TRUE]

\* part_001:370-374: the comparator is positive when b is the more recent; a
\* NaN difference is taken as 0 by Array.prototype.sort
CompareMut(a, b) ==
    IF SortDate(a).valid /\ SortDate(b).valid
    THEN SortDate(a).time - SortDate(b).time
    ELSE 0

Compare(a, b) ==
    IF SortDate(a).valid /\ SortDate(b).valid
    THEN SortDate(b).time - SortDate(a).time
    ELSE 0

\* Array.prototype.sort on an array of object references: stable, each
\* element inserted in turn into the sorted prefix to its left, behind the
\* last element the comparator does not put after it
InsertSorted(hp, sorted, ref) ==
    LET stays == {j \in 1..Len(sorted) : ~(Compare(hp[sorted[j]], hp[ref]) > 0)}
        k == IF stays = {} THEN 0
             ELSE CHOOSE j \in stays : \A i \in stays : i <= j
    IN SubSeq(sorted, 1, k) \o <<ref>> \o SubSeq(sorted, k + 1, Len(sorted))

\* One turn of the sort: the element at next goes into the sorted prefix
SortTurn(hp, refs, st) ==
    IF st.next > Len(refs) THEN st
    ELSE [out |-> InsertSorted(hp, st.out, refs[st.next]), next |-> st.next + 1]

\* Up to n turns of the sort: the first half of them and, while elements
\* are left, the rest
RECURSIVE SortRun(_, _, _, _)
SortRun(hp, refs, st, n) ==
    IF n <= 1 THEN SortTurn(hp, refs, st)
    ELSE LET first == SortRun(hp, refs, st, n \div 2)
         IN IF first.next > Len(refs) THEN first
            ELSE SortRun(hp, refs, first, n - (n \div 2))

SortRefs(hp, refs) == SortRun(hp, refs, [out |-> <<>>, next |-> 1], Len(refs)).out

\* -------------------------------------------------------- inventory cache

\* torrentsCache is a Map: a sequence of <<key, object reference>> in
\* insertion order.
MapIndex(m, k) ==
    IF \E i \in 1..Len(m) : m[i][1] = k
    THEN CHOOSE i \in 1..Len(m) : m[i][1] = k
    ELSE 0

MapHas(m, k) == MapIndex(m, k) # 0

\* Map.get: the reference stored under k, 0 when there is none
MapGet(m, k) == IF MapHas(m, k) THEN m[MapIndex(m, k)][2] ELSE 0

\* Map.set: an existing key keeps its place
MapSet(m, k, ref) ==
    IF MapHas(m, k) THEN [m EXCEPT ![MapIndex(m, k)] = <<k, ref>>]
    ELSE Append(m, <<k, ref>>)

\* An object parsed from the listing's JSON: the entry, not yet annotated
FreshObject(t) ==
    [id |-> t.id, name |-> t.name, updated_at |-> t.updated_at,
     created_at |-> t.created_at, files |-> t.files,
     imdbId |-> <<>>, parsed |-> <<>>]

\* part_001:72-78: data.data parsed into new objects, each set in the cache
\* under String(t.id), in the order of the listing.  st is [tc, hp, refs].
\* A key the Map holds keeps its place, a new key goes to the end at its
\* first set, and each key ends on the object of its last set.
CacheSnapshotMut(st, torrents) ==
    [tc   |-> st.tc,
     hp   |-> st.hp \o [i \in 1..Len(torrents) |-> FreshObject(torrents[i])],
     refs |-> st.refs \o [i \in 1..Len(torrents) |-> Len(st.hp) + i]]

CacheSnapshot(st, torrents) ==
    LET n == Len(torrents)
        base == Len(st.hp)
        keyAt(i) == ToStr(torrents[i].id)
        lastSet(k) == CHOOSE i \in 1..n :
                          /\ keyAt(i) = k
                          /\ \A j \in (i + 1)..n : keyAt(j) # k
        isNew(i) == /\ ~MapHas(st.tc, keyAt(i))
                    /\ \A j \in 1..(i - 1) : keyAt(j) # keyAt(i)
        news == SelectSeq([i \in 1..n |-> i], isNew)
    IN [tc   |-> [j \in 1..Len(st.tc) |->
                     IF \E i \in 1..n : keyAt(i) = st.tc[j][1]
                     THEN <<st.tc[j][1], base + lastSet(st.tc[j][1])>>
                     ELSE st.tc[j]]
                 \o [x \in 1..Len(news) |->
                        <<keyAt(news[x]), base + lastSet(keyAt(news[x]))>>],
        hp   |-> st.hp \o [i \in 1..n |-> FreshObject(torrents[i])],
        refs |-> st.refs \o [i \in 1..n |-> base + i]]

\* -------------------------------------------------------- metadata search

\* part_001:110  `${type}:${title}:${year || ''}`; a year is a number, so the
\* three parts can be read back from the string and the key is the triple
CacheKey(title, type, year) == <<type, title, year>>

\* part_001:112
SearchCacheHasMut(sc, key) == FALSE

SearchCacheHas(sc, key) == key \in DOMAIN sc

FnSetMut(f, k, v) == [x \in {k} |-> v]

FnSet(f, k, v) == [x \in (DOMAIN f) \cup {k} |-> IF x = k THEN v ELSE f[x]]

\* part_001:146  m.year || (m.releaseInfo && parseInt(m.releaseInfo)), as
\* <<n>>; <<>> when it is no number
MetaYear(m) == IF m.year # 0 THEN <<m.year>>
               ELSE IF m.releaseInfo # <<>> THEN ParseInt(m.releaseInfo)
               ELSE <<>>

\* part_001:145-148  data.metas.find(...): index of the first candidate whose
\* year is the requested one, 0 when there is none
RECURSIVE FindYear(_, _, _)
FindYear(metas, year, i) ==
    IF i > Len(metas) THEN 0
    ELSE IF MetaYear(metas[i]) = <<year>> THEN i
    ELSE FindYear(metas, year, i + 1)

\* part_001:141-150
BestMatchMut(metas, year) == metas[1]

BestMatch(metas, year) ==
    IF year # 0 /\ FindYear(metas, year, 1) # 0
    THEN metas[FindYear(metas, year, 1)]
    ELSE metas[1]

\* A response of the search endpoint: [ok |-> FALSE] is a transport error or
\* a non-success status, else metas is the candidate list
SearchError == [ok |-> FALSE, metas |-> <<>>]

SearchOk(metas) == [ok |-> TRUE, metas |-> metas]

\* part_001:126-163, from the arrival of the response: the caches after it,
\* the value returned (<<>> is null) and whether the call raised instead
SearchCompleteMut(sc, cc, key, year, resp) ==
    IF ~resp.ok THEN [sc |-> sc, cc |-> cc, result |-> <<>>, raised |-> TRUE]
    ELSE IF resp.metas = <<>>
         THEN [sc |-> FnSet(sc, key, <<>>), cc |-> cc, result |-> <<>>, raised |-> FALSE]
    ELSE LET bestMatch == BestMatch(resp.metas, year)
         IN [sc |-> FnSet(sc, key, <<bestMatch>>),
             cc |-> FnSet(cc, bestMatch.id, bestMatch),
             result |-> <<bestMatch>>, raised |-> FALSE]

SearchComplete(sc, cc, key, year, resp) ==
    IF ~resp.ok THEN [sc |-> sc, cc |-> cc, result |-> <<>>, raised |-> FALSE]
    ELSE IF resp.metas = <<>>
         THEN [sc |-> FnSet(sc, key, <<>>), cc |-> cc, result |-> <<>>, raised |-> FALSE]
    ELSE LET bestMatch == BestMatch(resp.metas, year)
         IN [sc |-> FnSet(sc, key, <<bestMatch>>),
             cc |-> FnSet(cc, bestMatch.id, bestMatch),
             result |-> <<bestMatch>>, raised |-> FALSE]

\* A response of the metadata-by-id endpoint: [ok |-> FALSE] is a transport
\* error or a non-success status, else meta is data.meta (<<>> when the
\* body has none)
MetaError == [ok |-> FALSE, meta |-> <<>>]

MetaOk(meta) == [ok |-> TRUE, meta |-> meta]

\* part_001:179-193, from the arrival of the response
GetByIdComplete(cc, imdbId, resp) ==
    IF ~resp.ok THEN [cc |-> cc, result |-> <<>>, raised |-> FALSE]
    ELSE IF resp.meta # <<>>
         THEN [cc |-> FnSet(cc, imdbId, resp.meta[1]), result |-> resp.meta,
               raised |-> FALSE]
    ELSE [cc |-> cc, result |-> <<>>, raised |-> FALSE]

\* ------------------------------------------------------------------- state

VARIABLES
    apiKey,         \* TORBOX_API_KEY is configured (part_001:17)
    torrentsCache,  \* part_001:22, a Map from String(id) to an object
    heap,           \* the objects parsed from listings, by reference
    searchCache,    \* part_001:28, cacheKey -> <<>> (null) or <<meta>>
    cinemetaCache,  \* part_001:25, IMDB id -> meta
    procs,          \* the requests in flight: position and local variables
    searchCalls     \* history: calls made to the search endpoint, per key

vars == <<apiKey, torrentsCache, heap, searchCache, cinemetaCache, procs, searchCalls>>

Procs == 1..MaxProcs

EmptyFn == [x \in {} |-> <<>>]

\* A request slot before its request arrives.  pc is the network wait the
\* request is suspended at; torrents, idx, metas, seen are the locals of
\* handleMediaCatalog; t, iter, fidx, streams those of the stream handler and
\* generateStreamsForTorrent.  listCalls, listFailed, linkReqs, searched, resp,
\* respOk, hit, issued, linkOks and before are history: the outbound calls
\* made, what came back, and the requests that had returned when a stream
\* request arrived.  parsedIn is the input of a parse on its own.
IdleProc ==
    [pc |-> "idle", op |-> "none", type |-> "", id |-> <<>>,
     title |-> "", year |-> 0, key |-> <<"", "", 0>>,
     torrents |-> <<>>, idx |-> 0, metas |-> <<>>, seen |-> {},
     t |-> 0, iter |-> 0, fidx |-> 0, streams |-> <<>>,
     result |-> <<>>, raised |-> FALSE,
     listCalls |-> 0, listFailed |-> FALSE, linkReqs |-> <<>>,
     searched |-> {}, resp |-> <<>>, respOk |-> FALSE, hit |-> FALSE, issued |-> 0,
     linkOks |-> <<>>, before |-> {}, parsedIn |-> <<>>]

\* The requests that have returned
Returned == {q \in Procs : procs[q].pc = "done"}

\* The shared state together with the locals of the request that is running
Machine(p) ==
    [tc |-> torrentsCache, hp |-> heap, sc |-> searchCache,
     cc |-> cinemetaCache, calls |-> searchCalls, me |-> procs[p]]

\* The step of request p that leads to machine m
Commit(p, m) ==
    /\ torrentsCache' = m.tc
    /\ heap' = m.hp
    /\ searchCache' = m.sc
    /\ cinemetaCache' = m.cc
    /\ searchCalls' = m.calls
    /\ procs' = [procs EXCEPT ![p] = m.me]
    /\ UNCHANGED apiKey

CallCount(calls, key) == IF key \in DOMAIN calls THEN calls[key] ELSE 0

\* part_001:126  fetch(searchUrl): the request leaves, the caller waits at pc
IssueSearch(m, key, name, pc) ==
    [m EXCEPT !.calls = FnSet(m.calls, key, CallCount(m.calls, key) + 1),
              !.me.key = key,
              !.me.searched = @ \cup {name},
              !.me.issued = @ + 1,
              !.me.pc = pc]

\* ------------------------------------------------------- catalog assembly

\* part_001:427  `tb:${torrent.id}`
FallbackIdMut(id) == TbPrefix \o <<"0">> \o ToStr(id)

FallbackId(id) == TbPrefix \o ToStr(id)

\* part_001:396, :429  seenImdb.has(...)
SeenHasMut(seen, id) == FALSE

SeenHas(seen, id) == id \in seen

\* part_001:383
CapReachedMut(n) == n > CatalogLimit

CapReached(n) == n >= CatalogLimit

\* part_001:408-421 and :432-442: the fields of a catalog entry that the
\* stream side and the listing's identity depend on
MetaEntry(id, catalogType, torrent, name) ==
    [id |-> id, type |-> catalogType, torboxId |-> torrent.id, torrentName |-> name]

\* part_001:396-446: the entry at ref, given what searchCinemeta returned
CatalogEmit(m, ref, cinemetaResult) ==
    LET torrent == m.hp[ref]
        name == NameOrDefault(torrent.name)
        parsed == ParseTorrentName(name)
    IN IF cinemetaResult # <<>> /\ ~SeenHas(m.me.seen, cinemetaResult[1].id)
       THEN LET imdb == cinemetaResult[1].id
                first == torrent.imdbId = <<>>
            IN [m EXCEPT
                 !.hp = IF first
                        THEN [@ EXCEPT ![ref].imdbId = imdb, ![ref].parsed = <<parsed>>]
                        ELSE @,
                 !.tc = IF first THEN MapSet(@, ToStr(torrent.id), ref) ELSE @,
                 !.me.seen = @ \cup {imdb},
                 !.me.metas = Append(@, MetaEntry(imdb, m.me.type, torrent, name))]
       ELSE IF cinemetaResult = <<>> /\ ~SeenHas(m.me.seen, FallbackId(torrent.id))
       THEN [m EXCEPT
              !.me.seen = @ \cup {FallbackId(torrent.id)},
              !.me.metas = Append(@, MetaEntry(FallbackId(torrent.id), m.me.type,
                                                torrent, name))]
       ELSE m

\* part_001:452  return { metas }
CatalogReturn(m) == [m EXCEPT !.me.pc = "done", !.me.result = m.me.metas]

\* part_001:454-457  catch (error) { return { metas: [] } }
CatalogCatchMut(m) == [m EXCEPT !.me.pc = "done", !.me.result = <<>>, !.me.raised = TRUE]

CatalogCatch(m) == [m EXCEPT !.me.pc = "done", !.me.result = <<>>]

\* part_001:382-446: one turn of the loop, at entry idx: the pass returns,
\* goes on to the next entry, or waits for a search (pc = "cat_search")
CatalogIter(m) ==
    IF m.me.idx > Len(m.me.torrents) \/ CapReached(Len(m.me.metas))
    THEN CatalogReturn(m)
    ELSE LET ref == m.me.torrents[m.me.idx]
             name == NameOrDefault(m.hp[ref].name)
             parsed == ParseTorrentName(name)
             key == CacheKey(parsed.title, parsed.type, parsed.year)
         IN IF PttThrows(name) THEN CatalogCatch(m)
            ELSE IF KindMismatch(parsed, m.me.type)
            THEN [m EXCEPT !.me.idx = @ + 1]
            ELSE IF SearchCacheHas(m.sc, key)
            THEN [CatalogEmit(m, ref, m.sc[key]) EXCEPT !.me.idx = @ + 1]
            ELSE IssueSearch(m, key, name, "cat_search")

\* Up to n turns of the loop: the first half of them and, while the pass
\* is still in the loop, the rest
RECURSIVE CatalogRun(_, _)
CatalogRun(m, n) ==
    IF n <= 1 THEN CatalogIter(m)
    ELSE LET first == CatalogRun(m, n \div 2)
         IN IF first.me.pc # "cat_loop" THEN first
            ELSE CatalogRun(first, n - (n \div 2))

\* part_001:382-452: the loop from entry idx on, up to the next search that
\* has to go to the network or to the end of the pass; one turn for each
\* entry left and one for the exit
CatalogLoop(m) ==
    CatalogRun([m EXCEPT !.me.pc = "cat_loop"], Len(m.me.torrents) - m.me.idx + 2)

\* part_001:57-66: getTorboxTorrents up to its fetch; without a key it throws
ListingThrows == ~apiKey

\* part_001:363-367: a catalog request for catalogType arrives
StartCatalog(p, catalogType) ==
    /\ procs[p].pc = "idle"
    /\ \A q \in Procs : q < p => procs[q].pc # "idle"
    /\ LET m == [Machine(p) EXCEPT !.me.op = "catalog", !.me.type = catalogType]
       IN IF ListingThrows
          THEN Commit(p, CatalogCatch([m EXCEPT !.me.listFailed = TRUE]))
          ELSE Commit(p, [m EXCEPT !.me.pc = "cat_list", !.me.listCalls = @ + 1])

\* A response of the listing endpoint: [ok |-> FALSE] is a transport error
\* or a non-success status, else torrents is data.data
ListError == [ok |-> FALSE, torrents |-> <<>>]

ListOk(torrents) == [ok |-> TRUE, torrents |-> torrents]

\* part_001:68-78 then :369-447: the listing arrives
CatalogListDone(p, resp) ==
    /\ procs[p].pc = "cat_list"
    /\ LET m == Machine(p)
       IN IF ~resp.ok
          THEN Commit(p, CatalogCatch([m EXCEPT !.me.listFailed = TRUE]))
          ELSE LET st == CacheSnapshot([tc |-> m.tc, hp |-> m.hp, refs |-> <<>>],
                                       resp.torrents)
                   sorted == SortRefs(st.hp, st.refs)
               IN Commit(p, CatalogLoop([m EXCEPT !.tc = st.tc, !.hp = st.hp,
                                                  !.me.torrents = sorted,
                                                  !.me.idx = 1]))

\* part_001:126-163 then :396-447: the search response for entry idx arrives
CatalogSearchDone(p, resp) ==
    /\ procs[p].pc = "cat_search"
    /\ LET m == Machine(p)
           r == SearchComplete(m.sc, m.cc, m.me.key, m.me.key[3], resp)
           m1 == [m EXCEPT !.sc = r.sc, !.cc = r.cc, !.me.resp = resp.metas, !.me.respOk = resp.ok]
           m2 == CatalogEmit(m1, m.me.torrents[m.me.idx], r.result)
       IN Commit(p, CatalogLoop([m2 EXCEPT !.me.idx = @ + 1]))

\* ------------------------------------------------------ stream resolution

\* String.prototype.toLowerCase on the letters file names are written with
LowerChar(c) ==
    CASE c = "M" -> "m" [] c = "K" -> "k" [] c = "V" -> "v"
      [] c = "P" -> "p" [] c = "A" -> "a" [] c = "N" -> "n"
      [] OTHER -> c

ToLowerCase(s) == [i \in 1..Len(s) |-> LowerChar(s[i])]

\* part_001:715
VideoExtensions ==
    {<<".", "m", "k", "v">>, <<".", "m", "p", "4">>, <<".", "a", "v", "i">>,
     <<".", "m", "o", "v">>, <<".", "w", "m", "v">>, <<".", "w", "e", "b", "m">>}

\* part_001:718-720
IsVideoMut(file) == TRUE

IsVideo(file) == \E ext \in VideoExtensions : EndsWith(ToLowerCase(file.name), ext)

\* part_001:207-210: the query the link endpoint receives; file_id is -1 when
\* the URL carries none
LinkRequest(torrentId, fileId) ==
    [torrent_id |-> torrentId, file_id |-> IF Truthy(fileId) THEN fileId ELSE -1]

\* part_001:203-205
LinkThrows == ~apiKey

\* part_001:820  return { streams }
StreamReturn(m) == [m EXCEPT !.me.pc = "done", !.me.result = m.me.streams]

\* part_001:810-813 and :767-769  return { streams: [] }
StreamEmptyMut(m) == [m EXCEPT !.me.pc = "scan"]

StreamEmpty(m) == [m EXCEPT !.me.pc = "done", !.me.result = <<>>]

\* part_001:822-825  catch (error) { return { streams: [] } }
StreamCatchMut(m) == [m EXCEPT !.me.pc = "done", !.me.result = <<>>, !.tc = <<>>]

StreamCatch(m) == [m EXCEPT !.me.pc = "done", !.me.result = <<>>]

\* part_001:212  fetch(url) for file fidx of torrent t (fidx 0: the torrent)
IssueLink(m, req) ==
    [m EXCEPT !.me.linkReqs = Append(@, req), !.me.pc = "st_link"]

\* part_001:717-738: the files from fidx on, up to the next link request
RECURSIVE FilesLoop(_)
FilesLoop(m) ==
    LET torrent == m.hp[m.me.t]
    IN IF m.me.fidx > Len(torrent.files) THEN StreamReturn(m)
       ELSE LET file == torrent.files[m.me.fidx]
            IN IF IsVideo(file) /\ ~LinkThrows
               THEN IssueLink(m, LinkRequest(torrent.id, file.id))
               ELSE FilesLoop([m EXCEPT !.me.fidx = @ + 1])

\* part_001:815-820 and :710-758: the torrent is found, its streams are built
GenerateStreams(m, ref) ==
    LET torrent == m.hp[ref]
        m1 == [m EXCEPT !.me.t = ref, !.me.streams = <<>>]
    IN IF torrent.files # <<>>
       THEN FilesLoop([m1 EXCEPT !.me.fidx = 1])
       ELSE IF LinkThrows THEN StreamReturn(m1)
       ELSE IssueLink([m1 EXCEPT !.me.fidx = 0], LinkRequest(torrent.id, -1))

\* part_001:57-66 as called from the stream handler
StreamList(m) ==
    IF ListingThrows THEN StreamCatch([m EXCEPT !.me.listFailed = TRUE])
    ELSE [m EXCEPT !.me.pc = "st_list", !.me.listCalls = @ + 1]

\* part_001:810-817
LocatedMut(m, ref) == IF ref = 0 THEN StreamList(m) ELSE GenerateStreams(m, ref)

Located(m, ref) == IF ref = 0 THEN StreamEmpty(m) ELSE GenerateStreams(m, ref)

\* part_001:776  id.replace('tb:', '')
TorrentIdOfMut(id) == SubSeq(id, Len(TbPrefix) + 2, Len(id))

TorrentIdOf(id) == RemoveFirst(id, TbPrefix)

\* part_001:789-794: the first object of the Map, in its order, whose
\* _imdbId is id; 0 when there is none
RECURSIVE FindAnnotated(_, _, _, _)
FindAnnotated(tc, hp, id, i) ==
    IF i > Len(tc) THEN 0
    ELSE IF hp[tc[i][2]].imdbId = id THEN tc[i][2]
    ELSE FindAnnotated(tc, hp, id, i + 1)

\* part_001:801-805: what the scan does with the result for object t
ScanMatch(m, t, cinemetaResult) ==
    IF cinemetaResult # <<>> /\ cinemetaResult[1].id = m.me.id
    THEN GenerateStreams([m EXCEPT !.hp[t].imdbId = m.me.id], t)
    ELSE [m EXCEPT !.me.iter = @ + 1, !.me.pc = "scan"]

\* part_001:797-813: the Map's iterator from position iter on, up to the next
\* search that has to go to the network, a match, or the end of the Map
RECURSIVE StreamScan(_)
StreamScan(m) ==
    IF m.me.iter > Len(m.tc) THEN StreamEmpty(m)
    ELSE LET t == m.tc[m.me.iter][2]
             parsed == ParseTorrentName(m.hp[t].name)
             key == CacheKey(parsed.title, parsed.type, parsed.year)
         IN IF PttThrows(m.hp[t].name) THEN StreamCatch(m)
            ELSE IF SearchCacheHas(m.sc, key)
            THEN LET m1 == ScanMatch(m, t, m.sc[key])
                 IN IF m1.me.pc = "scan" THEN StreamScan(m1) ELSE m1
            ELSE IssueSearch([m EXCEPT !.me.t = t], key, m.hp[t].name, "st_search")

\* part_001:767  ['movie', 'series', 'other'].includes(type)
SupportedTypesMut == {"movie", "series", "other", "tv"}

SupportedTypes == {"movie", "series", "other"}

\* part_001:763-787: a stream request for (type, id) arrives
StartStream(p, type, id) ==
    /\ procs[p].pc = "idle"
    /\ \A q \in Procs : q < p => procs[q].pc # "idle"
    /\ LET m == [Machine(p) EXCEPT !.me.op = "stream", !.me.type = type,
                                   !.me.id = id, !.me.pc = "scan",
                                   !.me.before = Returned]
       IN IF type \notin SupportedTypes THEN Commit(p, StreamEmpty(m))
          ELSE IF StartsWith(id, TbPrefix)
          THEN IF MapGet(m.tc, TorrentIdOf(id)) # 0
               THEN Commit(p, Located(m, MapGet(m.tc, TorrentIdOf(id))))
               ELSE Commit(p, StreamList(m))
          ELSE IF StartsWith(id, TtPrefix) THEN Commit(p, StreamList(m))
          ELSE Commit(p, StreamEmpty(m))

\* part_001:68-78 then :781 or :789-813: the listing arrives
StreamListDone(p, resp) ==
    /\ procs[p].pc = "st_list"
    /\ LET m == Machine(p)
       IN IF ~resp.ok
          THEN Commit(p, StreamCatch([m EXCEPT !.me.listFailed = TRUE]))
          ELSE LET st == CacheSnapshot([tc |-> m.tc, hp |-> m.hp, refs |-> <<>>],
                                       resp.torrents)
                   m1 == [m EXCEPT !.tc = st.tc, !.hp = st.hp, !.me.pc = "scan"]
               IN IF StartsWith(m.me.id, TbPrefix)
                  THEN Commit(p, Located(m1, MapGet(m1.tc, TorrentIdOf(m.me.id))))
                  ELSE IF FindAnnotated(m1.tc, m1.hp, m.me.id, 1) # 0
                  THEN Commit(p, GenerateStreams(m1,
                                   FindAnnotated(m1.tc, m1.hp, m.me.id, 1)))
                  ELSE Commit(p, StreamScan([m1 EXCEPT !.me.iter = 1]))

\* part_001:126-163 then :801-813: the search response for object t arrives
StreamSearchDone(p, resp) ==
    /\ procs[p].pc = "st_search"
    /\ LET m == Machine(p)
           r == SearchComplete(m.sc, m.cc, m.me.key, m.me.key[3], resp)
           m1 == [m EXCEPT !.sc = r.sc, !.cc = r.cc, !.me.resp = resp.metas, !.me.respOk = resp.ok]
           m2 == ScanMatch(m1, m.me.t, r.result)
       IN Commit(p, IF m2.me.pc = "scan" THEN StreamScan(m2) ELSE m2)

\* part_001:734-736 and :752-754  catch (err): the failure is logged, the
\* loop goes on
LinkCatchMut(m) == [m EXCEPT !.me.fidx = Len(m.hp[m.me.t].files)]

LinkCatch(m) == m

\* part_001:218-223 then :725-736 or :743-754: the link response arrives;
\* ok is FALSE for a transport error or a non-success status
LinkDone(p, ok) ==
    /\ procs[p].pc = "st_link"
    /\ LET m == Machine(p)
           req == m.me.linkReqs[Len(m.me.linkReqs)]
           m0 == [m EXCEPT !.me.linkOks = Append(@, ok)]
           m1 == IF ok /\ ~(m.me.fidx = 0 /\ QualityThrows(m.hp[m.me.t].name))
                 THEN [m0 EXCEPT !.me.streams =
                                    Append(@, [url |-> req, file |-> m.me.fidx])]
                 ELSE LinkCatch(m0)
       IN IF m.me.fidx = 0 THEN Commit(p, StreamReturn(m1))
          ELSE Commit(p, FilesLoop([m1 EXCEPT !.me.fidx = @ + 1]))

\* ------------------------------------------------------------ searchByTitle

\* part_001:109-126: searchCinemeta(title, type, year) called on its own
StartSearch(p, title, type, year) ==
    /\ procs[p].pc = "idle"
    /\ \A q \in Procs : q < p => procs[q].pc # "idle"
    /\ LET key == CacheKey(title, type, year)
           m == [Machine(p) EXCEPT !.me.op = "search", !.me.type = type,
                                   !.me.title = title, !.me.year = year,
                                   !.me.key = key]
       IN IF SearchCacheHas(m.sc, key)
          THEN Commit(p, [m EXCEPT !.me.pc = "done", !.me.hit = TRUE,
                                   !.me.result = m.sc[key]])
          ELSE Commit(p, IssueSearch(m, key, title, "s_wait"))

\* part_001:126-163: the response arrives
SearchDone(p, resp) ==
    /\ procs[p].pc = "s_wait"
    /\ LET m == Machine(p)
           r == SearchComplete(m.sc, m.cc, m.me.key, m.me.year, resp)
       IN Commit(p, [m EXCEPT !.sc = r.sc, !.cc = r.cc, !.me.resp = resp.metas, !.me.respOk = resp.ok,
                              !.me.pc = "done", !.me.result = r.result,
                              !.me.raised = r.raised])

\* ------------------------------------------------------------------ getById

\* part_001:172-179: getCinemetaMeta(type, imdbId) called on its own
StartGetById(p, type, imdbId) ==
    /\ procs[p].pc = "idle"
    /\ \A q \in Procs : q < p => procs[q].pc # "idle"
    /\ LET m == [Machine(p) EXCEPT !.me.op = "getById", !.me.type = type,
                                   !.me.id = imdbId]
       IN IF imdbId \in DOMAIN m.cc
          THEN Commit(p, [m EXCEPT !.me.pc = "done", !.me.hit = TRUE,
                                   !.me.result = <<m.cc[imdbId]>>])
          ELSE Commit(p, [m EXCEPT !.me.pc = "g_wait", !.me.issued = @ + 1])

\* part_001:179-193: the response arrives; the endpoint answers with the
\* record of the id it was asked for
GetByIdDone(p, resp) ==
    /\ procs[p].pc = "g_wait"
    /\ resp.meta # <<>> => resp.meta[1].id = procs[p].id
    /\ LET m == Machine(p)
           r == GetByIdComplete(m.cc, m.me.id, resp)
       IN Commit(p, [m EXCEPT !.cc = r.cc, !.me.resp = resp.meta, !.me.respOk = resp.ok,
                              !.me.pc = "done", !.me.result = r.result,
                              !.me.raised = r.raised])

\* ------------------------------------------------------------- parse alone

\* part_001:86-100: parseTorrentName on a name for which ptt.parse returned
\* parsed
ParseName(p, parsed, name) ==
    /\ procs[p].pc = "idle"
    /\ \A q \in Procs : q < p => procs[q].pc # "idle"
    /\ LET m == [Machine(p) EXCEPT !.me.op = "parse", !.me.parsedIn = <<parsed>>]
       IN Commit(p, [m EXCEPT !.me.pc = "done",
                              !.me.result = <<Descriptor(parsed, name)>>])

\* ------------------------------------------------------------- environment

\* Files of the content account
FileMkv == [id |-> 7, name |-> <<"a", ".", "M", "K", "V">>]

FileNfo == [id |-> 8, name |-> <<"a", ".", "n", "f", "o">>]

FileMp4 == [id |-> 9, name |-> <<"b", ".", "m", "p", "4">>]

\* Entries of the listing: the same film twice (2160p with files, 1080p
\* without a file list) and an episode
Film4K ==
    [id |-> 12, name |-> "A.2021.2160p", updated_at |-> NumDate(2),
     created_at |-> NumDate(1), files |-> <<FileMkv, FileNfo>>]

Film1080 ==
    [id |-> 2, name |-> "A.2021.1080p", updated_at |-> NoDate,
     created_at |-> NumDate(3), files |-> <<>>]

Film1080Old == [Film1080 EXCEPT !.created_at = NoDate]

Episode ==
    [id |-> 3, name |-> "B.S01E02", updated_at |-> NumDate(1700),
     created_at |-> NoDate, files |-> <<FileMp4>>]

Entries == {Film4K, Film1080, Film1080Old, Episode}

\* What the listing endpoint may answer
Listings == {<<>>, <<Film4K, Film1080>>, <<Episode, Film1080Old, Film4K>>}

ListResponses == {ListError} \cup {ListOk(l) : l \in Listings}

\* Candidates of the metadata catalog
Tt1 == <<"t", "t", "1">>

Tt2 == <<"t", "t", "2">>

Meta1 == [id |-> Tt1, year |-> 0, releaseInfo |-> <<"2", "0", "2", "1">>]

Meta2 == [id |-> Tt2, year |-> 2020, releaseInfo |-> <<>>]

\* What the search endpoint may answer
SearchResponses ==
    {SearchError, SearchOk(<<>>), SearchOk(<<Meta1>>), SearchOk(<<Meta2>>)}

\* The requests the host client may send
CatalogTypes == {"movie", "series"}

StreamRequests ==
    {<<"movie", FallbackId(e.id)>> : e \in Entries}
    \cup {<<"movie", Tt1>>, <<"movie", Tt2>>,
          <<"movie", <<"z", "z">>>>, <<"tv", Tt1>>}

\* ----------------------------------------------------------- specification

Init ==
    /\ apiKey \in BOOLEAN
    /\ torrentsCache = <<>>
    /\ heap = <<>>
    /\ searchCache = EmptyFn
    /\ cinemetaCache = EmptyFn
    /\ searchCalls = EmptyFn
    /\ procs = [p \in Procs |-> IdleProc]

Next ==
    \E p \in Procs :
        \/ \E catalogType \in CatalogTypes : StartCatalog(p, catalogType)
        \/ \E resp \in ListResponses : CatalogListDone(p, resp)
        \/ \E resp \in SearchResponses : CatalogSearchDone(p, resp)
        \/ \E r \in StreamRequests : StartStream(p, r[1], r[2])
        \/ \E resp \in ListResponses : StreamListDone(p, resp)
        \/ \E resp \in SearchResponses : StreamSearchDone(p, resp)
        \/ \E ok \in BOOLEAN : LinkDone(p, ok)

Spec == Init /\ [][Next]_vars


\* A catalog pass over a large inventory: entry i is the film A when i is a
\* multiple of every (and every is not 0), else the film C; the most recent
\* entry is the last one.
BigListing(n, every) ==
    [i \in 1..n |->
        [id |-> i,
         name |-> IF every # 0 /\ i % every = 0 THEN "A.2021.1080p" ELSE "C.2020",
         updated_at |-> NumDate(i), created_at |-> NoDate, files |-> <<>>]]

BigListResponses ==
    {ListOk(BigListing(n, every)) :
        n \in (MaxInventory - 2)..MaxInventory, every \in {0, 5}}

NextCap ==
    \/ \E catalogType \in CatalogTypes : StartCatalog(1, catalogType)
    \/ \E resp \in BigListResponses : CatalogListDone(1, resp)
    \/ \E resp \in SearchResponses : CatalogSearchDone(1, resp)

SpecCap == Init /\ [][NextCap]_vars

\* searchByTitle on its own: the calls made and the candidate lists returned
Tt3 == <<"t", "t", "3">>

Tt4 == <<"t", "t", "4">>

Meta3 == [id |-> Tt3, year |-> 0,
          releaseInfo |-> <<"2", "0", "2", "0", "-", "2", "0", "2", "2">>]

Meta4 == [id |-> Tt4, year |-> 0, releaseInfo |-> <<>>]

Candidates == {Meta1, Meta2, Meta3, Meta4}

SearchArgs == {<<"A", "movie", year>> : year \in {0, 2020, 2021}}

AllSearchResponses ==
    {SearchError, SearchOk(<<>>)}
    \cup {SearchOk(<<a>>) : a \in Candidates}
    \cup {SearchOk(<<a, b>>) : a, b \in Candidates}

NextSearch ==
    \E p \in Procs :
        \/ \E a \in SearchArgs : StartSearch(p, a[1], a[2], a[3])
        \/ \E resp \in AllSearchResponses : SearchDone(p, resp)

SpecSearch == Init /\ [][NextSearch]_vars

\* searchByTitle and getById together, each answered in every way its
\* endpoint can answer
MetaResponses == {MetaError, MetaOk(<<>>)} \cup {MetaOk(<<a>>) : a \in Candidates}

NextResolver ==
    \E p \in Procs :
        \/ \E a \in SearchArgs : StartSearch(p, a[1], a[2], a[3])
        \/ \E resp \in SearchResponses : SearchDone(p, resp)
        \/ \E imdbId \in {Tt1, Tt2} : StartGetById(p, "movie", imdbId)
        \/ \E resp \in MetaResponses : GetByIdDone(p, resp)

SpecResolver == Init /\ [][NextResolver]_vars

\* parseTorrentName on its own, over what ptt.parse can return: each of
\* title, year, season, episode and resolution detected or not, seasons and
\* episodes from 0 on
PttOutputs ==
    [title : {"", "D"}, year : {0, 2020}, season : {-1, 0, 1, 2},
     episode : {-1, 0, 1, 2}, resolution : {"", "1080p"}]

NextParse ==
    \E p \in Procs : \E parsed \in PttOutputs : ParseName(p, parsed, "D.x")

SpecParse == Init /\ [][NextParse]_vars

\* An inventory of irregular entries: a pack with two video files, the
\* first of them with file id 0, and a text file; an entry with a text file
\* only; an entry whose name is a number; an entry whose updated_at cannot
\* be parsed
FileZero == [id |-> 0, name |-> <<"c", ".", "m", "k", "v">>]

Pack ==
    [id |-> 5, name |-> "C.2020", updated_at |-> NumDate(5),
     created_at |-> NoDate, files |-> <<FileZero, FileNfo, FileMp4>>]

Docs ==
    [id |-> 6, name |-> "C.2020", updated_at |-> NumDate(6),
     created_at |-> NoDate, files |-> <<FileNfo>>]

Broken ==
    [id |-> 4, name |-> NotAString, updated_at |-> NumDate(4),
     created_at |-> NoDate, files |-> <<>>]

Stale ==
    [id |-> 8, name |-> "A.2021.1080p", updated_at |-> BadDate,
     created_at |-> NumDate(9), files |-> <<>>]

EdgeEntries == {Pack, Docs, Broken, Stale}

EdgeListings == {<<Pack, Broken, Stale>>, <<Docs, Pack>>, <<Film1080, Stale>>}

EdgeListResponses == {ListError} \cup {ListOk(l) : l \in EdgeListings}

EdgeStreamRequests == {<<"movie", FallbackId(e.id)>> : e \in {Pack, Docs}}

NextEdge ==
    \E p \in Procs :
        \/ \E catalogType \in CatalogTypes : StartCatalog(p, catalogType)
        \/ \E resp \in EdgeListResponses : CatalogListDone(p, resp)
        \/ \E resp \in SearchResponses : CatalogSearchDone(p, resp)
        \/ \E r \in EdgeStreamRequests : StartStream(p, r[1], r[2])
        \/ \E resp \in EdgeListResponses : StreamListDone(p, resp)
        \/ \E ok \in BOOLEAN : LinkDone(p, ok)

SpecEdge == Init /\ [][NextEdge]_vars

\* Stream requests on authoritative IDs over an inventory with an entry the
\* listing gives no name
Nameless ==
    [id |-> 7, name |-> NoName, updated_at |-> NumDate(7),
     created_at |-> NoDate, files |-> <<>>]

ScanListings == {<<Nameless, Film1080>>, <<Film1080, Film4K>>, <<Film4K, Nameless>>}

ScanListResponses == {ListError} \cup {ListOk(l) : l \in ScanListings}

NextScan ==
    \E p \in Procs :
        \/ \E id \in {Tt1, Tt2} : StartStream(p, "movie", id)
        \/ \E resp \in ScanListResponses : StreamListDone(p, resp)
        \/ \E resp \in SearchResponses : StreamSearchDone(p, resp)
        \/ \E ok \in BOOLEAN : LinkDone(p, ok)

SpecScan == Init /\ [][NextScan]_vars

\* Request p is suspended at an outbound call: one of CatalogListDone,
\* CatalogSearchDone, StreamListDone, StreamSearchDone, LinkDone is enabled
\* for it
Waiting(p) ==
    procs[p].pc \in {"cat_list", "cat_search", "st_list", "st_search", "st_link"}

\* Every outbound call eventually completes, with success or failure: weak
\* fairness of the completion steps of request p, with its two parts
\* written out.  The completion steps of p are enabled exactly when p is
\* waiting, and a step of Next is one of them exactly when it changes
\* procs[p] while p is waiting.
CallsComplete(p) ==
    \/ []<>(~Waiting(p))
    \/ []<><<Waiting(p) /\ procs'[p] # procs[p]>>_vars

SpecLive == Spec /\ \A p \in Procs : CallsComplete(p)

\* ------------------------------------------------------------------ claims

\* The object the inventory cache holds at position i of the Map
CachedAt(i) == heap[torrentsCache[i][2]]

\* The ids of the files some listing gives entry id
FileIdsOf(id) ==
    UNION {{e.files[i].id : i \in 1..Len(e.files)} : e \in {x \in Entries : x.id = id}}

CatalogProcs == {p \in Procs : procs[p].op = "catalog"}

StreamProcs == {p \in Procs : procs[p].op = "stream"}

\* C1: the fallback ID of a catalog entry is the fixed prefix followed by the
\* source entry's ID, and a stream request on the fallback ID of entry X
\* locates X, asks links for X and X's files only, and returns only links of X.
FallbackIdReversible ==
    /\ \A p \in CatalogProcs : \A i \in 1..Len(procs[p].metas) :
          LET meta == procs[p].metas[i]
          IN StartsWith(meta.id, TbPrefix) =>
                meta.id = <<"t", "b", ":">> \o ToStr(meta.torboxId)
    /\ \A p \in StreamProcs : \A e \in Entries :
          procs[p].id = <<"t", "b", ":">> \o ToStr(e.id) =>
             /\ procs[p].t # 0 => heap[procs[p].t].id = e.id
             /\ \A i \in 1..Len(procs[p].linkReqs) :
                   /\ procs[p].linkReqs[i].torrent_id = e.id
                   /\ procs[p].linkReqs[i].file_id \in {-1} \cup FileIdsOf(e.id)
             /\ \A i \in 1..Len(procs[p].result) :
                   procs[p].result[i].url.torrent_id = e.id

\* C1 witness: a catalog pass has emitted the fallback ID of entry 12 and a
\* stream request on that ID has returned the link of its video file.
FallbackIdReversibleWitness ==
    \E p \in StreamProcs, q \in CatalogProcs :
        /\ procs[p].pc = "done"
        /\ procs[p].id = FallbackId(Film4K.id)
        /\ procs[p].result = <<[url |-> [torrent_id |-> 12, file_id |-> 7], file |-> 1]>>
        /\ \E i \in 1..Len(procs[q].result) :
              /\ procs[q].result[i].id = procs[p].id
              /\ procs[q].result[i].torboxId = 12

\* C2: the canonical IDs of one catalog listing are pairwise different.
CatalogIdsUnique ==
    \A p \in CatalogProcs : \A i, j \in 1..Len(procs[p].metas) :
        i # j => procs[p].metas[i].id # procs[p].metas[j].id

\* The search key of a cached object, as the catalog pass computes it
KeyOf(obj) ==
    LET parsed == ParseTorrentName(NameOrDefault(obj.name))
    IN CacheKey(parsed.title, parsed.type, parsed.year)

\* obj resolves to the authoritative ID imdb in the search cache
ResolvesTo(obj, imdb) ==
    /\ KeyOf(obj) \in DOMAIN searchCache
    /\ searchCache[KeyOf(obj)] # <<>>
    /\ searchCache[KeyOf(obj)][1].id = imdb

\* A finished movie pass over two entries that both resolve to tt1 lists tt1
\* once, from entry src
DedupPass(p, src) ==
    /\ procs[p].pc = "done"
    /\ procs[p].type = "movie"
    /\ Cardinality({i \in 1..Len(procs[p].torrents) :
                      ResolvesTo(heap[procs[p].torrents[i]], Tt1)}) = 2
    /\ Cardinality({i \in 1..Len(procs[p].result) :
                      procs[p].result[i].id = Tt1}) = 1
    /\ \E i \in 1..Len(procs[p].result) :
          procs[p].result[i].id = Tt1 /\ procs[p].result[i].torboxId = src

\* C2 witness: two finished passes over the two variants of the film, listed
\* in either order, each list tt1 once.
CatalogIdsUniqueWitness ==
    \E p, q \in CatalogProcs : DedupPass(p, 2) /\ DedupPass(q, 12)

\* C6: a request whose inventory refresh failed (no credential, error status
\* or transport error) has returned the empty list and raised nothing.
RefreshFailureIsEmpty ==
    \A p \in Procs : procs[p].listFailed =>
        /\ procs[p].pc = "done"
        /\ procs[p].result = <<>>
        /\ ~procs[p].raised

\* C6 witness: a catalog request and a stream request whose listing call
\* was made and failed.
RefreshFailureIsEmptyWitness ==
    \E p \in CatalogProcs, q \in StreamProcs :
        /\ procs[p].listFailed /\ procs[p].listCalls = 1
        /\ procs[q].listFailed /\ procs[q].listCalls = 1

\* C8: every entry of a catalog listing comes from a release whose parsed
\* kind is the requested kind, and no search call is made for another kind.
CatalogKindFilter ==
    \A p \in CatalogProcs :
        /\ \A i \in 1..Len(procs[p].metas) :
              ParseTorrentName(procs[p].metas[i].torrentName).type = procs[p].type
        /\ \A name \in procs[p].searched :
              ParseTorrentName(name).type = procs[p].type

\* C8 witness: a finished pass that listed an entry and made a search call
\* although its inventory also held an entry of the other kind.
CatalogKindFilterWitness ==
    \E p \in CatalogProcs :
        /\ procs[p].pc = "done"
        /\ procs[p].result # <<>>
        /\ procs[p].searched # {}
        /\ \E i \in 1..Len(procs[p].torrents) :
              ParseTorrentName(heap[procs[p].torrents[i]].name).type # procs[p].type

\* The listing of request p arrives with success in this step
ListingArrives(p) ==
    /\ procs[p].pc \in {"cat_list", "st_list"}
    /\ procs'[p].pc # procs[p].pc
    /\ ~procs'[p].listFailed

\* The annotations of the object cached under the key at position i, after
\* the step, are those before it
AnnotationsKept(i) ==
    LET old == CachedAt(i)
        new == heap'[MapGet(torrentsCache', torrentsCache[i][1])]
    IN /\ new.imdbId = old.imdbId
       /\ new.parsed = old.parsed

\* C4: a successful refresh leaves every annotated cache entry annotated with
\* the same canonicalId and descriptor (an entry the new listing does not
\* hold is not touched at all, so this is about the ids that recur).
RefreshKeepsAnnotations ==
    [][\A p \in Procs : ListingArrives(p) =>
          \A i \in 1..Len(torrentsCache) :
              CachedAt(i).imdbId # <<>> => AnnotationsKept(i)]_vars

\* C5: in a step that is no refresh, a cache entry that carries a canonicalId
\* does not come to carry another one.
FirstAnnotationWins ==
    [][(\A p \in Procs : ~ListingArrives(p)) =>
          \A i \in 1..Len(torrentsCache) :
              LET old == CachedAt(i)
                  new == heap'[MapGet(torrentsCache', torrentsCache[i][1])]
              IN old.imdbId # <<>> /\ new.imdbId # <<>> => new.imdbId = old.imdbId]_vars

\* A link can be asked for obj: it lists no files, or a video file
Linkable(obj) ==
    obj.files = <<>> \/ \E i \in 1..Len(obj.files) : IsVideo(obj.files[i])

\* C9: a finished stream request on an authoritative ID, none of whose link
\* requests failed, returns a link of every cached entry that resolves to
\* that ID.
AllVariantsStreamed ==
    \A p \in StreamProcs :
        ( /\ procs[p].pc = "done"
          /\ StartsWith(procs[p].id, TtPrefix)
          /\ procs[p].t # 0
          /\ Len(procs[p].result) = Len(procs[p].linkReqs) )
        => \A i \in 1..Len(torrentsCache) :
              ( /\ Linkable(CachedAt(i))
                /\ \/ CachedAt(i).imdbId = procs[p].id
                   \/ ResolvesTo(CachedAt(i), procs[p].id) )
              => \E j \in 1..Len(procs[p].result) :
                    procs[p].result[j].url.torrent_id = CachedAt(i).id

\* C7: a catalog pass never holds more than 20 entries.
CatalogAtMostTwenty ==
    \A p \in CatalogProcs :
        /\ Len(procs[p].metas) <= 20
        /\ Len(procs[p].result) <= 20

\* C7 witness: a finished pass returns 20 entries, one authoritative and the
\* others fallback, from an inventory with more than 20 entries of its kind.
CatalogAtMostTwentyWitness ==
    \E p \in CatalogProcs :
        /\ procs[p].pc = "done"
        /\ Len(procs[p].result) = 20
        /\ Len(procs[p].torrents) > 20
        /\ \A i \in 1..Len(procs[p].torrents) :
              ParseTorrentName(heap[procs[p].torrents[i]].name).type = procs[p].type
        /\ Cardinality({i \in 1..20 : procs[p].result[i].id = Tt1}) = 1
        /\ Cardinality({i \in 1..20 : StartsWith(procs[p].result[i].id, TbPrefix)}) = 19

SearchProcs == {p \in Procs : procs[p].op = "search"}

\* C3 as stated: no search key is ever sent to the search endpoint twice.
SearchAtMostOneCall ==
    \A key \in DOMAIN searchCalls : searchCalls[key] <= 1

\* Request p calls searchByTitle in this step
SearchBegins(p) == procs[p].pc = "idle" /\ procs'[p].op = "search"

\* C3 amended: once the search cache holds a value for a triple (stored by a
\* call that got a successful response: a record, or an absence for an empty
\* candidate list) no further call goes to the search endpoint for it, and
\* every call that begins from then on returns the cached value at once.
SearchCachedNoCall ==
    [][/\ \A key \in DOMAIN searchCache :
             CallCount(searchCalls', key) = CallCount(searchCalls, key)
       /\ \A p \in Procs :
             SearchBegins(p) /\ procs'[p].key \in DOMAIN searchCache =>
                /\ procs'[p].pc = "done"
                /\ procs'[p].result = searchCache[procs'[p].key]
       /\ \A p \in Procs :
             procs'[p].op = "search" /\ procs'[p].pc = "done" /\ procs'[p].respOk =>
                /\ procs'[p].key \in DOMAIN searchCache'
                /\ procs'[p].result = <<>> <=> procs'[p].resp = <<>>]_vars

\* C3 witness: one call was answered with a record and cached it, and a
\* later call for the same triple returned that record without a call of
\* its own.
SearchCachedNoCallWitness ==
    \E p, q \in SearchProcs :
        /\ procs[p].pc = "done" /\ procs[q].pc = "done"
        /\ procs[p].key = procs[q].key
        /\ procs[p].issued = 1 /\ procs[p].respOk /\ procs[p].result # <<>>
        /\ procs[q].hit /\ procs[q].issued = 0
        /\ procs[q].result = procs[p].result
        /\ searchCalls[procs[p].key] = 1

\* The candidate's release year is year
YearIs(m, year) ==
    \/ m.year = year
    \/ m.year = 0 /\ m.releaseInfo # <<>> /\ ParseInt(m.releaseInfo) = <<year>>

\* C10: of several candidates searchByTitle returns the first one, unless a
\* year was requested and some candidate has that release year: then it
\* returns the first candidate that has it.
BestMatchByYear ==
    \A p \in SearchProcs :
        procs[p].pc = "done" /\ procs[p].resp # <<>> =>
            LET metas == procs[p].resp
                year == procs[p].year
                hits == {i \in 1..Len(metas) : YearIs(metas[i], year)}
            IN /\ Len(procs[p].result) = 1
               /\ IF year # 0 /\ hits # {}
                  THEN \E i \in hits : /\ procs[p].result[1] = metas[i]
                                       /\ \A j \in hits : i <= j
                  ELSE procs[p].result[1] = metas[1]

\* C10 witness: 2021 was requested, the candidate of 2021 came second and
\* was returned.
BestMatchByYearWitness ==
    \E p \in SearchProcs :
        /\ procs[p].pc = "done"
        /\ procs[p].year = 2021
        /\ procs[p].resp = <<Meta2, Meta1>>
        /\ procs[p].result = <<Meta1>>

\* The listing of catalog pass p arrived and the pass has returned
PassReturned(p) ==
    /\ procs[p].pc = "done"
    /\ procs[p].listCalls = 1
    /\ ~procs[p].listFailed

\* C11: a catalog pass whose listing arrived goes through the whole sorted
\* inventory (or up to the cap) whatever a single entry does, and returns
\* every entry it emitted on the way: an entry that fails is skipped, the
\* entries before and after it are listed.
EntryFailureSkipsEntry ==
    \A p \in CatalogProcs : PassReturned(p) =>
        /\ \/ procs[p].idx > Len(procs[p].torrents)
           \/ CapReached(Len(procs[p].metas))
        /\ procs[p].result = procs[p].metas

ResolverProcs == {p \in Procs : procs[p].op \in {"search", "getById"}}

\* The external call of resolver request p was made and failed
ResolverCallFailed(p) ==
    /\ procs[p].pc = "done"
    /\ procs[p].issued = 1
    /\ ~procs[p].respOk

\* C12: a searchByTitle or getById call never raises, and one whose
\* external call met a transport error or a non-success status returns
\* absent.
ResolverNeverRaises ==
    \A p \in ResolverProcs :
        /\ ~procs[p].raised
        /\ ResolverCallFailed(p) => procs[p].result = <<>>

\* C12 witness: a searchByTitle call and a getById call have both returned
\* absent after their external call failed.
ResolverNeverRaisesWitness ==
    \E p, q \in ResolverProcs :
        /\ procs[p].op = "search" /\ ResolverCallFailed(p)
        /\ procs[q].op = "getById" /\ ResolverCallFailed(q)
        /\ procs[p].result = <<>> /\ procs[q].result = <<>>

\* A stream request for a kind the manifest does not declare, or for an id
\* that has neither the fallback nor the authoritative shape, arrives as
\* request p in this step
UnknownRequestArrives(p) ==
    /\ procs[p].pc = "idle"
    /\ procs'[p].op = "stream"
    /\ \/ procs'[p].type \notin {"movie", "series", "other"}
       \/ /\ ~StartsWith(procs'[p].id, <<"t", "b", ":">>)
          /\ ~StartsWith(procs'[p].id, <<"t", "t">>)

\* C13: a stream request for an undeclared kind or an unrecognized id shape
\* returns the empty list in the step it arrives in: nothing is raised, no
\* outbound call is made and no cache changes.
UnknownRequestIsInert ==
    [][\A p \in Procs : UnknownRequestArrives(p) =>
          /\ procs'[p].pc = "done"
          /\ procs'[p].result = <<>>
          /\ ~procs'[p].raised
          /\ procs'[p].listCalls = 0
          /\ procs'[p].linkReqs = <<>>
          /\ procs'[p].issued = 0
          /\ UNCHANGED <<torrentsCache, heap, searchCache, cinemetaCache,
                         searchCalls>>]_vars

\* C13 witness: with the caches filled by an earlier catalog pass, a stream
\* request for an id of unknown shape has returned the empty list without a
\* call.
UnknownRequestIsInertWitness ==
    \E p \in StreamProcs :
        /\ procs[p].pc = "done"
        /\ procs[p].id = <<"z", "z">>
        /\ procs[p].result = <<>>
        /\ procs[p].listCalls = 0
        /\ procs[p].before # {}
        /\ torrentsCache # <<>>
        /\ DOMAIN searchCache # {}

\* The file name ends in a video extension, letter case aside
VideoName(name) ==
    \E ext \in VideoExtensions : EndsWith(ToLowerCase(name), ext)

\* obj lists files, none of them with a video name
NoVideoAmongFiles(obj) ==
    /\ obj.files # <<>>
    /\ \A i \in 1..Len(obj.files) : ~VideoName(obj.files[i].name)

\* C14: a stream request that located an entry with a non-empty file list
\* holding no video file makes no link request, for a file or for the entry
\* as a whole, and returns the empty list without an error.
NoVideoNoLink ==
    \A p \in StreamProcs :
        procs[p].t # 0 /\ NoVideoAmongFiles(heap[procs[p].t]) =>
            /\ procs[p].pc = "done"
            /\ procs[p].linkReqs = <<>>
            /\ procs[p].result = <<>>
            /\ ~procs[p].raised

\* C14 witness: the request on the fallback ID of entry 6, whose only file
\* is a text file, has located the entry and returned.
NoVideoNoLinkWitness ==
    \E p \in StreamProcs :
        /\ procs[p].pc = "done"
        /\ procs[p].id = FallbackId(Docs.id)
        /\ procs[p].t # 0
        /\ heap[procs[p].t].id = Docs.id
        /\ heap[procs[p].t].files = <<FileNfo>>
        /\ procs[p].linkReqs = <<>>

ParseProcs == {p \in Procs : procs[p].op = "parse"}

\* C15: the kind parse returns is series exactly when ptt.parse detected a
\* season or an episode, whatever their values, and movie otherwise.
KindBySeasonEpisode ==
    \A p \in ParseProcs :
        LET parsed == procs[p].parsedIn[1]
            detected == parsed.season # -1 \/ parsed.episode # -1
        IN procs[p].result[1].type = IF detected THEN "series" ELSE "movie"

\* The files of obj with a video name, in the order of its file list
VideoFilesOf(obj) == SelectSeq(obj.files, LAMBDA f : VideoName(f.name))

\* C16: the link requests of a stream request are, in order, one for each
\* video file of the located entry, each carrying the entry ID and that
\* file's ID; a request with the entry ID alone is made only for an entry
\* that lists no files.
LinkCarriesFileId ==
    \A p \in StreamProcs : procs[p].t # 0 =>
        LET obj == heap[procs[p].t]
            videos == VideoFilesOf(obj)
            reqs == procs[p].linkReqs
        IN IF obj.files = <<>>
           THEN \A k \in 1..Len(reqs) :
                   reqs[k] = [torrent_id |-> obj.id, file_id |-> -1]
           ELSE /\ Len(reqs) <= Len(videos)
                /\ \A k \in 1..Len(reqs) :
                      reqs[k] = [torrent_id |-> obj.id, file_id |-> videos[k].id]

\* The inventory the cache holds is the one catalog pass q was given
SameInventory(q) ==
    {FreshObject(CachedAt(i)) : i \in 1..Len(torrentsCache)}
        = {FreshObject(heap[procs[q].torrents[i]]) : i \in 1..Len(procs[q].torrents)}

\* C17: when a catalog pass has returned authoritative ID X for inventory
\* entry E, a stream request on X that arrives afterwards and finds the same
\* inventory locates E.
AnnotationGuidesStream ==
    \A p \in StreamProcs : \A q \in CatalogProcs \cap procs[p].before :
        \A i \in 1..Len(procs[q].result) :
            ( /\ procs[q].result[i].id = procs[p].id
              /\ procs[p].t # 0
              /\ SameInventory(q) )
            => heap[procs[p].t].id = procs[q].result[i].torboxId

\* The search key of the release a catalog entry was built from
KeyOfMeta(meta) ==
    LET parsed == ParseTorrentName(meta.torrentName)
    IN CacheKey(parsed.title, parsed.type, parsed.year)

\* C18: no catalog pass lists one title (parsed title, kind and year) both
\* under an authoritative ID and under a fallback ID.
AuthoritativeExcludesFallback ==
    \A p \in CatalogProcs : \A i, j \in 1..Len(procs[p].metas) :
        ( /\ StartsWith(procs[p].metas[i].id, <<"t", "t">>)
          /\ StartsWith(procs[p].metas[j].id, <<"t", "b", ":">>) )
        => KeyOfMeta(procs[p].metas[i]) # KeyOfMeta(procs[p].metas[j])

\* The positions, in the file list of obj, of the files with a video name
VideoPositions(obj) ==
    SelectSeq([i \in 1..Len(obj.files) |-> i], LAMBDA i : VideoName(obj.files[i].name))

\* The positions of the video files whose link request, the k-th for the
\* k-th video file, came back with success
LinkedPositions(obj, oks) ==
    SelectSeq(SubSeq(VideoPositions(obj), 1, Len(oks)),
              LAMBDA i : \E k \in 1..Len(oks) : VideoPositions(obj)[k] = i /\ oks[k])

\* C19: a stream request that has returned after asking links for the files
\* of an entry asked one for every video file, whatever the earlier requests came back with,
\* and returns the links of exactly those whose request succeeded, in the
\* order of the file list, without an error.
PartialLinksInOrder ==
    \A p \in StreamProcs :
        /\ procs[p].pc = "done"
        /\ procs[p].linkReqs # <<>>
        /\ heap[procs[p].t].files # <<>>
        => LET obj == heap[procs[p].t]
                linked == LinkedPositions(obj, procs[p].linkOks)
            IN /\ ~procs[p].raised
               /\ Len(procs[p].linkReqs) = Len(VideoPositions(obj))
               /\ Len(procs[p].linkOks) = Len(procs[p].linkReqs)
               /\ Len(procs[p].result) = Len(linked)
               /\ \A j \in 1..Len(linked) :
                     /\ procs[p].result[j].file = linked[j]
                     /\ procs[p].result[j].url.torrent_id = obj.id

\* C19 witness: of the two video files of entry 5 the first request failed
\* and the second succeeded; the request returned the link of the second.
PartialLinksInOrderWitness ==
    \E p \in StreamProcs :
        /\ procs[p].pc = "done"
        /\ procs[p].t # 0
        /\ heap[procs[p].t].id = Pack.id
        /\ procs[p].linkOks = <<FALSE, TRUE>>
        /\ Len(procs[p].result) = 1
        /\ procs[p].result[1].file = 3

\* dateValue is present and stands for a moment in time
Parsable(dateValue) ==
    ParseDate(dateValue) # <<>> /\ ParseDate(dateValue)[1].valid

\* The timestamp the recency sort is described by: updated_at, else
\* created_at, else the epoch, an unparsable value counting as an absent one
Effective(obj) ==
    IF Parsable(obj.updated_at) THEN ParseDate(obj.updated_at)[1].time
    ELSE IF Parsable(obj.created_at) THEN ParseDate(obj.created_at)[1].time
    ELSE 0

\* C20: the order in which a catalog pass goes through the inventory is
\* descending by the effective timestamp, where an unparsable updated_at
\* gives way to created_at exactly as an absent one does.
SortedByEffective ==
    \A p \in CatalogProcs :
        \A i, j \in 1..Len(procs[p].torrents) :
            i < j => Effective(heap[procs[p].torrents[i]])
                        >= Effective(heap[procs[p].torrents[j]])

\* The stream request p went on to build the streams of an entry
Generated(p) == procs[p].fidx > 0 \/ procs[p].linkReqs # <<>>

\* The stream request p is on an authoritative ID and its refresh succeeded
ScansInventory(p) ==
    /\ procs[p].op = "stream"
    /\ procs[p].type \in {"movie", "series", "other"}
    /\ StartsWith(procs[p].id, <<"t", "t">>)
    /\ procs[p].listCalls = 1
    /\ ~procs[p].listFailed

\* C21: a stream request on an authoritative ID whose refresh succeeded
\* returns without an entry only when its scan has gone past the last entry
\* of the inventory cache, and the entry it goes on to build streams for is
\* annotated with the ID at that moment.
ScanExhaustsInventory ==
    [][\A p \in Procs :
          ScansInventory(p)' =>
             /\ ~Generated(p) /\ Generated(p)'
                => heap'[procs'[p].t].imdbId = procs'[p].id
             /\ procs[p].pc # "done" /\ procs'[p].pc = "done" /\ ~Generated(p)'
                => procs'[p].iter > Len(torrentsCache')]_vars

\* The calls of getTorboxTorrents request p has made: those that went to the
\* network and, without a credential, the one that threw before it
ListingInvocations(p) ==
    IF apiKey THEN procs[p].listCalls
    ELSE IF procs[p].listFailed THEN 1 ELSE 0

\* The stream request p is on a fallback-shaped ID
OnFallbackId(p) ==
    /\ procs[p].op = "stream"
    /\ procs[p].type \in {"movie", "series", "other"}
    /\ StartsWith(procs[p].id, <<"t", "b", ":">>)

\* The inventory cache holds the entry ID embedded in the ID of request p
EmbeddedIdCached(p) ==
    \E i \in 1..Len(torrentsCache) :
        torrentsCache[i][1] = SubSeq(procs[p].id, 4, Len(procs[p].id))

\* C22: a stream request on a fallback-shaped ID makes no listing call when
\* the embedded entry ID is in the inventory cache as it arrives and one
\* when it is not, never makes a second one, and returns the empty list
\* when the listing has come back and the entry ID is still not cached.
FallbackRefreshesOnce ==
    [][\A p \in Procs :
          OnFallbackId(p)' =>
             /\ ListingInvocations(p)' <= 1
             /\ procs[p].pc = "idle" =>
                   ListingInvocations(p)' =
                      IF \E i \in 1..Len(torrentsCache) :
                            torrentsCache[i][1] = SubSeq(procs'[p].id, 4, Len(procs'[p].id))
                      THEN 0 ELSE 1
             /\ procs[p].pc = "st_list" /\ procs'[p] # procs[p] /\ ~EmbeddedIdCached(p)' =>
                   /\ procs'[p].pc = "done"
                   /\ procs'[p].result = <<>>
                   /\ ~procs'[p].raised]_vars

\* C22 witness: one request found its entry in the cache and made no listing
\* call; another did not, made one, and returned the empty list because the
\* listing did not hold the entry either.
FallbackRefreshesOnceWitness ==
    \E p, q \in Procs :
        /\ OnFallbackId(p) /\ OnFallbackId(q)
        /\ procs[p].pc = "done" /\ procs[p].listCalls = 0 /\ procs[p].t # 0
        /\ procs[q].pc = "done" /\ procs[q].listCalls = 1 /\ ~procs[q].listFailed
        /\ ~EmbeddedIdCached(q)
        /\ procs[q].result = <<>>

\* The positions, in the sorted inventory of catalog pass p, of the entry
\* that the i-th emitted catalog entry points back to
SourcePositions(p, i) ==
    {j \in 1..Len(procs[p].torrents) :
        heap[procs[p].torrents[j]].id = procs[p].metas[i].torboxId}

\* Every timestamp the inventory of catalog pass p carries can be read
Timestamped(p) ==
    \A j \in 1..Len(procs[p].torrents) :
        /\ heap[procs[p].torrents[j]].updated_at.t # "bad"
        /\ heap[procs[p].torrents[j]].created_at.t # "bad"

CapStopsResolution ==
    \A p \in CatalogProcs :
        /\ procs[p].issued <= procs[p].idx
        /\ Len(procs[p].metas) >= 20 =>
              /\ procs[p].pc = "done"
              /\ Len(procs[p].metas) = 20
              /\ heap[procs[p].torrents[procs[p].idx - 1]].id = procs[p].metas[20].torboxId
              /\ procs[p].issued <= procs[p].idx - 1

\* C24 witness: a pass over more than 20 entries returned 20 entries after
\* 20 searches, one for each of the 20 most recent entries, with entries
\* left behind them.
CapStopsResolutionWitness ==
    \E p \in CatalogProcs :
        /\ procs[p].pc = "done"
        /\ Len(procs[p].result) = 20
        /\ procs[p].issued = 20
        /\ procs[p].idx = 21
        /\ Len(procs[p].torrents) > 21

\* The entry IDs of the objects a step has parsed from a listing
SnapshotIds == {heap'[r].id : r \in (Len(heap) + 1)..Len(heap')}

\* C25: no step removes a key from the inventory cache, the search cache or
\* the by-ID cache; a key of the inventory cache keeps leading to an entry
\* of that ID, and to the very object it led to when the step applies a
\* snapshot that does not hold the ID.
CachesOnlyGrow ==
    [][/\ Len(torrentsCache') >= Len(torrentsCache)
       /\ \A i \in 1..Len(torrentsCache) :
             /\ torrentsCache'[i][1] = torrentsCache[i][1]
             /\ heap'[torrentsCache'[i][2]].id = heap[torrentsCache[i][2]].id
             /\ heap[torrentsCache[i][2]].id \notin SnapshotIds
                   /\ Len(heap') > Len(heap)
                => torrentsCache'[i] = torrentsCache[i]
       /\ DOMAIN searchCache \subseteq DOMAIN searchCache'
       /\ DOMAIN cinemetaCache \subseteq DOMAIN cinemetaCache']_vars

\* C25 witness: the inventory cache still holds, under its ID, an entry of
\* an earlier snapshot that the snapshot of a later catalog pass does not
\* contain, and both metadata caches hold a key.
CachesOnlyGrowWitness ==
    \E p \in CatalogProcs : \E i \in 1..Len(torrentsCache) :
        /\ procs[p].torrents # <<>>
        /\ \A j \in 1..Len(procs[p].torrents) :
              /\ procs[p].torrents[j] > torrentsCache[i][2]
              /\ heap[procs[p].torrents[j]].id # heap[torrentsCache[i][2]].id
        /\ torrentsCache[i][1] = ToStr(heap[torrentsCache[i][2]].id)
        /\ DOMAIN searchCache # {}
        /\ DOMAIN cinemetaCache # {}

\* C26: the step in which a request's inventory refresh fails, for want of
\* a credential or on the answer of the listing endpoint, leaves the
\* inventory cache and every object in it as they were.
FailedRefreshKeepsCache ==
    [][\A p \in Procs :
          ~procs[p].listFailed /\ procs'[p].listFailed
          => /\ torrentsCache' = torrentsCache
             /\ heap' = heap]_vars

\* C26 witness: the refresh of a stream request failed after a catalog pass
\* had filled the cache and annotated an entry; the cache holds the
\* annotated entry.
FailedRefreshKeepsCacheWitness ==
    \E p \in StreamProcs : \E q \in procs[p].before :
        /\ procs[p].listFailed
        /\ procs[p].listCalls = 1
        /\ procs[q].op = "catalog"
        /\ procs[q].result # <<>>
        /\ \E i \in 1..Len(torrentsCache) : CachedAt(i).imdbId # <<>>

\* C27: objects are numbered in the order the snapshots they belong to were
\* parsed; no step replaces the object the inventory cache holds under an ID
\* by an object of an older snapshot.
NoOlderWriteBack ==
    [][\A i \in 1..Len(torrentsCache) :
          torrentsCache'[i][2] >= torrentsCache[i][2]]_vars

\* C28: the value the search cache holds under a key, a record or a cached
\* absence, is the value it holds under that key after every step.
SearchCacheValueStable ==
    [][\A key \in DOMAIN searchCache :
          /\ key \in DOMAIN searchCache'
          /\ searchCache'[key] = searchCache[key]]_vars

\* C29: the step that parses a snapshot leaves every entry of the snapshot
\* in the inventory cache, under its ID, as an object of that snapshot, so
\* that no state between two steps holds a part of a snapshot only.
SnapshotAppliedWhole ==
    [][\A r \in (Len(heap) + 1)..Len(heap') :
          \E i \in 1..Len(torrentsCache') :
             /\ torrentsCache'[i][1] = ToStr(heap'[r].id)
             /\ torrentsCache'[i][2] > Len(heap)
             /\ heap'[torrentsCache'[i][2]].id = heap'[r].id]_vars

\* C29 witness: a catalog pass waits for a search with the two entries of
\* its snapshot in the cache, while another request is suspended too.
SnapshotAppliedWholeWitness ==
    \E p \in CatalogProcs : \E q \in Procs \ {p} :
        /\ procs[p].pc = "cat_search"
        /\ procs[q].pc \notin {"idle", "done"}
        /\ Len(procs[p].torrents) >= 2
        /\ \A j \in 1..Len(procs[p].torrents) :
              \E i \in 1..Len(torrentsCache) :
                 /\ torrentsCache[i][1] = ToStr(heap[procs[p].torrents[j]].id)
                 /\ torrentsCache[i][2] = procs[p].torrents[j]

\* C30: every catalog request and every stream request that has arrived
\* eventually returns, given that each outbound call it waits for
\* eventually completes.
EveryRequestReturns ==
    \A p \in Procs :
        (procs[p].op \in {"catalog", "stream"}) ~> (procs[p].pc = "done")

\* C30 witness: a stream request on an authoritative ID has returned after
\* a scan that went through two cache entries and waited for two searches,
\* next to a catalog pass that has returned a listing.
EveryRequestReturnsWitness ==
    \E p \in StreamProcs : \E q \in CatalogProcs :
        /\ procs[p].pc = "done"
        /\ StartsWith(procs[p].id, <<"t", "t">>)
        /\ procs[p].iter > 2
        /\ procs[p].issued >= 2
        /\ procs[q].pc = "done"
        /\ procs[q].result # <<>>

====
